---- MODULE Spec2Model ----
(***************************************************************************)
(* Request-scoped logging of package stalog (stackdriver.go,               *)
(* middleware.go): the three middleware entry points, NewReserve, the      *)
(* ContextLogger with its severity history, the wrappedResponseWriter and  *)
(* the deferred LastHandling that writes the access-log line.              *)
(*                                                                         *)
(* The downstream handler is the environment: between an entry point's     *)
(* call of next and its return (or panic) it issues logging calls and      *)
(* response writes, one action per call.  Every write that reaches one of  *)
(* the three sinks (Config.ContextLogOut, Config.RequestLogOut, os.Stderr) *)
(* is recorded, in order, in the variable writes.                          *)
(***************************************************************************)
EXTENDS Integers, Sequences, FiniteSets, TLC

\* ------------------------------------------------------------------ bounds
MaxCalls == 3           \* calls (logging, WriteHeader, Write) the handlers issue
MaxBody == 2            \* bytes passed to one Write call

Reqs == {1, 2}          \* requests the server may receive
Goroutines == {1, 2}    \* goroutines one handler may start for logging

Nil == 0                \* a nil *ContextLogger

\* -------------------------------------------------------------- Severity
SeverityDefault == 0
SeverityDebug == 100
SeverityInfo == 200
SeverityNotice == 300
SeverityWarning == 400
SeverityError == 500
SeverityCritical == 600
SeverityAlert == 700
SeverityEmergency == 800

Severities ==
    { SeverityDefault, SeverityDebug, SeverityInfo, SeverityNotice, SeverityWarning,
      SeverityError, SeverityCritical, SeverityAlert, SeverityEmergency }

\* Severity.String
SeverityString(s) ==
    CASE s = SeverityDefault -> "DEFAULT"
      [] s = SeverityDebug -> "DEBUG"
      [] s = SeverityInfo -> "INFO"
      [] s = SeverityNotice -> "NOTICE"
      [] s = SeverityWarning -> "WARNING"
      [] s = SeverityError -> "ERROR"
      [] s = SeverityCritical -> "CRITICAL"
      [] s = SeverityAlert -> "ALERT"
      [] s = SeverityEmergency -> "EMERGENCY"
      [] OTHER -> "UNKNOWN"

\* fmt.Sprintf("%d", n) for n >= 0
Digit(d) ==
    CASE d = 0 -> "0" [] d = 1 -> "1" [] d = 2 -> "2" [] d = 3 -> "3" [] d = 4 -> "4"
      [] d = 5 -> "5" [] d = 6 -> "6" [] d = 7 -> "7" [] d = 8 -> "8" [] OTHER -> "9"

RECURSIVE Sprintd(_)
Sprintd(n) == IF n < 10 THEN Digit(n) ELSE Sprintd(n \div 10) \o Digit(n % 10)

\* ----------------------------------------------------------------- inputs
\* The severities of the logging methods the handlers of the model call
\* (Debug, Info, Warning, Error and their f/ln variants).
LogSeverities == { SeverityDebug, SeverityInfo, SeverityWarning, SeverityError }
\* Config.Severity: NewConfig's default and a stricter setting.
Thresholds == { SeverityInfo, SeverityWarning }
\* context.Context: the values stored in it, by key.
Background == [ k \in {} |-> "" ]
WithValue(ctx, key, val) == [ k \in DOMAIN ctx \cup { key } |-> IF k = key THEN val ELSE ctx[k] ]
Value(ctx, key) == IF key \in DOMAIN ctx THEN << ctx[key] >> ELSE << >>

\* The inbound requests: the trace header is absent (<< >>), well formed
\* (<< trace id, span id >>) or malformed; the request's context is empty
\* or holds the span an earlier middleware started.
HeaderAbsent == << >>
HeaderValid == << "0af7651916cd43dd", "7" >>
HeaderMalformed == << "0af7651916cd43dd;o=1" >>
NoTrace == [ ctx |-> Background, header |-> HeaderAbsent ]
HeaderTrace == [ ctx |-> Background, header |-> HeaderValid ]
BadHeader == [ ctx |-> Background, header |-> HeaderMalformed ]
SpanTrace == [ ctx |-> WithValue(Background, "span", "463ac35c9f6413ad"), header |-> HeaderAbsent ]
SpanAndHeader == [ ctx |-> WithValue(Background, "span", "463ac35c9f6413ad"), header |-> HeaderValid ]
Inbounds == { NoTrace, HeaderTrace }
AllInbounds == { NoTrace, HeaderTrace, BadHeader, SpanTrace, SpanAndHeader }
\* Status codes handlers pass to WriteHeader.
Statuses == { 404, 500 }
StatusOK == 200

VARIABLES
    config,     \* the *Config shared by all requests
    pc,         \* per request: "none", "idle", "running", "done"
    entry,      \* per request: the entry point that serves it
    inbound,    \* per request: the inbound *http.Request (context, trace header)
    reserve,    \* per request: the Reserve (traces, contextLogger, request)
    loggers,    \* per ContextLogger: Trace, Severity, loggedSeverity
    handed,     \* per request: what next was called with (request, writer)
    wrw,        \* per request: the wrappedResponseWriter (status, responseSize)
    under,      \* per request: the calls the underlying http.ResponseWriter got
    calls,      \* per request: calls issued by the handler so far
    issued,     \* per ContextLogger: the severities of the calls made on it
    gor,        \* per request, per goroutine: a logging call in progress
    exit,       \* per request: how the handler ended and what the entry
                \* point's caller then observes ("return" or "panic")
    genCount,   \* trace ids generated so far
    writes      \* every Write call on a sink, in order

vars ==
    << config, pc, entry, inbound, reserve, loggers, handed, wrw, under, calls, issued,
       gor, exit, genCount, writes >>

\* ------------------------------------------------------------ sink writes
\* One Write call on a sink.  sink is "ContextLogOut", "RequestLogOut" or
\* "Stderr"; by is the function that made the call, req the request it
\* worked for; err tells whether the call returned an error.  A field a
\* line kind does not have is "" (status: -1).
SinkWrite(sink, by, r, trace, severity, status, size, data, text, bytes, err) ==
    [ sink |-> sink, by |-> by, req |-> r, trace |-> trace, severity |-> severity,
      status |-> status, responseSize |-> size, data |-> data, text |-> text,
      bytes |-> bytes, err |-> err ]

\* The line terminator, and the bytes json.Marshal returns for an entry
LF == "0xa"
jsonByte == << "json" >>

\* fmt.Fprintln(os.Stderr, err.Error())
Fprintln(by, r, text) ==
    SinkWrite("Stderr", by, r, "", "", -1, "", "", text, Append(<< text >>, LF), FALSE)

\* json.Marshal of a contextLog / HttpRequestLog: fails on an AdditionalData
\* value encoding/json does not support, omits "data" when the map is empty.
jsonMarshal(additionalData) ==
    IF additionalData = "unsupported"
    THEN [ err |-> "json: unsupported type", data |-> "" ]
    ELSE [ err |-> "nil", data |-> IF additionalData = "empty" THEN "" ELSE additionalData ]

\* --------------------------------------------------------- ContextLogger
\* l.loggedSeverity: the slice header's view of its backing array
loggedSeverity(l) == SubSeq(l.backing, 1, l.len)

\* append, keeping only the severity logged last once the history is not empty
appendAtLast(l, n, severity) ==
    IF n = 0
    THEN [ l EXCEPT !.backing = << severity >>, !.len = 1 ]
    ELSE [ l EXCEPT !.backing = [ i \in 1 .. Len(l.backing) |-> IF i = n THEN severity ELSE l.backing[i] ],
                    !.len = n ]

\* append(l.loggedSeverity, severity), for a slice header read when its
\* length was n: the element is stored at index n of the backing array and
\* the header is stored back with length n+1 (capacity 10 is never exceeded).
appendAt(l, n, severity) ==
    LET m == IF Len(l.backing) > n THEN Len(l.backing) ELSE n + 1
    IN [ l EXCEPT !.backing = [ i \in 1 .. m |-> IF i = n + 1 THEN severity ELSE l.backing[i] ],
                  !.len = n + 1 ]

\* write after the append, handing the entry and its terminator to the sink
\* in two Write calls
emitTwoWrites(l, severity, sinkOk) ==
    LET m == jsonMarshal(l.AdditionalData)
    IN IF m.err # "nil"
       THEN [ out |-> << Fprintln("write", l.id, m.err) >>, err |-> m.err ]
       ELSE [ out |-> << SinkWrite("ContextLogOut", "write", l.id, l.Trace, SeverityString(severity),
                                   -1, "", m.data, "", jsonByte, ~sinkOk),
                         SinkWrite("ContextLogOut", "write", l.id, l.Trace, SeverityString(severity),
                                   -1, "", m.data, "", << LF >>, ~sinkOk) >>,
              err |-> IF sinkOk THEN "nil" ELSE "write failed" ]

\* ContextLogger.write after the threshold test and the append: the entry
\* is serialized, the terminator appended, and the whole handed to l.out in
\* one Write call.
emit(l, severity, sinkOk) ==
    LET m == jsonMarshal(l.AdditionalData)
    IN IF m.err # "nil"
       THEN [ out |-> << Fprintln("write", l.id, m.err) >>, err |-> m.err ]
       ELSE [ out |-> << SinkWrite("ContextLogOut", "write", l.id, l.Trace, SeverityString(severity),
                                   -1, "", m.data, "", Append(jsonByte, LF), ~sinkOk) >>,
              err |-> IF sinkOk THEN "nil" ELSE "write failed" ]

\* write, with the threshold test off by one: a call at the threshold is dropped
writeAboveThreshold(l, severity, sinkOk) ==
    IF severity <= l.Severity
    THEN [ l |-> l, out |-> << >>, err |-> "nil" ]
    ELSE LET e == emit(l, severity, sinkOk)
         IN [ l |-> appendAt(l, l.len, severity), out |-> e.out, err |-> e.err ]

\* write, recording the severity only once the line is in the sink
writeAppendsOnSuccess(l, severity, sinkOk) ==
    IF severity < l.Severity
    THEN [ l |-> l, out |-> << >>, err |-> "nil" ]
    ELSE LET e == emit(l, severity, sinkOk)
         IN [ l |-> IF e.err = "nil" THEN appendAt(l, l.len, severity) ELSE l,
              out |-> e.out, err |-> e.err ]

\* ContextLogger.write: the severity is appended to the history before the
\* entry is serialized and written.
write(l, severity, sinkOk) ==
    IF severity < l.Severity
    THEN [ l |-> l, out |-> << >>, err |-> "nil" ]
    ELSE LET e == emit(l, severity, sinkOk)
         IN [ l |-> appendAt(l, l.len, severity), out |-> e.out, err |-> e.err ]

\* ContextLogger.maxSeverity
RECURSIVE maxOver(_, _)
maxOver(max, history) ==
    IF history = << >> THEN max
    ELSE maxOver(IF Head(history) > max THEN Head(history) ELSE max, Tail(history))

\* maxSeverity, returning the severity logged last instead of the highest
maxSeverityLast(l) ==
    IF l.len = 0 THEN SeverityDefault ELSE loggedSeverity(l)[l.len]

maxSeverity(l) == maxOver(SeverityDefault, loggedSeverity(l))

\* RequestContextLogger, falling back to the logger made first when the
\* request carries none
RequestContextLoggerOrFirst(request) ==
    LET v == Value(request.ctx, "ContextLoggerKey")
    IN IF v # << >> THEN v[1] ELSE 1

\* RequestContextLogger: the value stored under ContextLoggerKey, nil if none
RequestContextLogger(request) ==
    LET v == Value(request.ctx, "ContextLoggerKey")
    IN IF v # << >> THEN v[1] ELSE Nil

\* --------------------------------------------------------------- Reserve
\* propagation.HTTPFormat.SpanContextFromRequest: a well-formed header is
\* "trace id/span id"
SpanContextFromRequest(request) ==
    IF Len(request.header) = 2
    THEN [ ok |-> TRUE, TraceID |-> request.header[1] ]
    ELSE [ ok |-> FALSE, TraceID |-> "" ]

\* getTraceId, not reading the trace header
getTraceIdSpanOnly(request) ==
    LET span == Value(request.ctx, "span")
    IN IF span # << >> THEN span[1] ELSE ""

\* getTraceId: the trace id of the span in the request's context, else of
\* the request's trace header, else ""
getTraceId(request) ==
    LET span == Value(request.ctx, "span")
        sc == SpanContextFromRequest(request)
    IN IF span # << >> THEN span[1]
       ELSE IF sc.ok THEN sc.TraceID
       ELSE ""

\* generateTraceId: trace.StartSpan, the id of the new span and the context
\* that holds it
generateTraceId(request) ==
    LET id == "gen" \o Sprintd(genCount + 1)
    IN [ traceId |-> id, ctx |-> WithValue(request.ctx, "span", id) ]

\* NewReserve, giving the logger the bare trace id instead of traces
NewReserveBareTrace(cfg, r) ==
    LET found == getTraceId(inbound[r])
        gen == generateTraceId(inbound[r])
        traceId == IF found = "" THEN gen.traceId ELSE found
        ctx == IF found = "" THEN gen.ctx ELSE inbound[r].ctx
        traces == "projects/" \o cfg.ProjectId \o "/traces/" \o traceId
    IN [ contextLogger |-> [ id |-> r, Trace |-> traceId, Severity |-> cfg.Severity,
                             AdditionalData |-> cfg.AdditionalData,
                             backing |-> << >>, len |-> 0 ],
         request |-> [ ctx |-> WithValue(ctx, "ContextLoggerKey", r) ],
         traces |-> traces,
         generated |-> found = "" ]

NewReserve(cfg, r) ==
    LET found == getTraceId(inbound[r])
        gen == generateTraceId(inbound[r])
        traceId == IF found = "" THEN gen.traceId ELSE found
        ctx == IF found = "" THEN gen.ctx ELSE inbound[r].ctx
        traces == "projects/" \o cfg.ProjectId \o "/traces/" \o traceId
    IN [ contextLogger |-> [ id |-> r, Trace |-> traces, Severity |-> cfg.Severity,
                             AdditionalData |-> cfg.AdditionalData,
                             backing |-> << >>, len |-> 0 ],
         request |-> [ ctx |-> WithValue(ctx, "ContextLoggerKey", r) ],
         traces |-> traces,
         generated |-> found = "" ]

\* writeRequestLog
writeRequestLog(r, cfg, status, responseSize, trace, severity, sinkOk) ==
    LET m == jsonMarshal(cfg.AdditionalData)
    IN IF m.err # "nil"
       THEN [ out |-> << >>, err |-> m.err ]
       ELSE [ out |-> << SinkWrite("RequestLogOut", "writeRequestLog", r, trace, SeverityString(severity), status,
                                   Sprintd(responseSize), m.data, "", Append(jsonByte, LF), ~sinkOk) >>,
              err |-> IF sinkOk THEN "nil" ELSE "write failed" ]

\* LastHandling, taking a status never set for 200
LastHandlingDefaultOK(r, w, sinkOk) ==
    LET res == writeRequestLog(r, config, IF w.status = 0 THEN StatusOK ELSE w.status,
                               w.responseSize, reserve[r].traces, maxSeverity(loggers[r]), sinkOk)
    IN IF res.err # "nil" THEN res.out \o << Fprintln("LastHandling", r, res.err) >> ELSE res.out

\* Reserve.LastHandling: the sink writes it makes
LastHandling(r, w, sinkOk) ==
    LET res == writeRequestLog(r, config, w.status, w.responseSize, reserve[r].traces,
                               maxSeverity(loggers[r]), sinkOk)
    IN IF res.err # "nil" THEN res.out \o << Fprintln("LastHandling", r, res.err) >> ELSE res.out

\* -------------------------------------------------- wrappedResponseWriter
\* wrappedResponseWriter.WriteHeader
WriteHeader(w, status) == [ w EXCEPT !.status = status ]

\* Write, counting only the bytes of the call made last
WriteLast(w, n) ==
    [ w EXCEPT !.status = IF w.status = 0 THEN StatusOK ELSE w.status,
               !.responseSize = n ]

\* wrappedResponseWriter.Write, the underlying writer having returned n
Write(w, n) ==
    [ w EXCEPT !.status = IF w.status = 0 THEN StatusOK ELSE w.status,
               !.responseSize = w.responseSize + n ]

\* What Write returns to the handler, the underlying writer having returned n, err
WriteReturns(n, err) == << n, err >>

\* ------------------------------------------------------------------ Init
AdditionalDatas == { "empty", "fields", "unsupported" }

NoReserve == [ contextLogger |-> Nil, request |-> [ ctx |-> Background ], traces |-> "",
               generated |-> FALSE ]
NoLogger == [ id |-> Nil, Trace |-> "", Severity |-> SeverityDefault, AdditionalData |-> "empty",
              backing |-> << >>, len |-> 0 ]
IdleCall == [ pc |-> "idle", severity |-> SeverityDefault, len |-> 0 ]

\* The state shared by every start: a Config as NewConfig and the caller set
\* it up, the requests in arrived not yet served, nothing written.
InitWith(arrived, inbounds) ==
    /\ config \in [ ProjectId : { "my-gcp-project" }, Severity : Thresholds,
                    AdditionalData : AdditionalDatas ]
    /\ pc = [ r \in Reqs |-> IF r \in arrived THEN "idle" ELSE "none" ]
    /\ entry = [ r \in Reqs |-> "" ]
    /\ inbound \in [ Reqs -> inbounds ]
    /\ \A r \in Reqs \ arrived : inbound[r] = NoTrace
    /\ reserve = [ r \in Reqs |-> NoReserve ]
    /\ loggers = [ r \in Reqs |-> NoLogger ]
    /\ handed = [ r \in Reqs |-> [ request |-> [ ctx |-> Background ], writer |-> "" ] ]
    /\ wrw = [ r \in Reqs |-> [ status |-> 0, responseSize |-> 0 ] ]
    /\ under = [ r \in Reqs |-> << >> ]
    /\ issued = [ r \in Reqs |-> << >> ]
    /\ calls = [ r \in Reqs |-> 0 ]
    /\ gor = [ r \in Reqs |-> [ g \in Goroutines |-> IdleCall ] ]
    /\ exit = [ r \in Reqs |-> [ handler |-> "", caller |-> "" ] ]
    /\ genCount = 0
    /\ writes = << >>

\* One request is served.
Init == InitWith({1}, Inbounds)

\* --------------------------------------------------------- entry points
\* What the three entry points share: NewReserve, a fresh wrappedResponseWriter
\* around w, the deferred LastHandling registered; next is then called with
\* the request and the writer the entry point passes.
Serve(r, name, request, writer) ==
    LET rv == NewReserve(config, r)
    IN /\ pc' = [ pc EXCEPT ![r] = "running" ]
       /\ entry' = [ entry EXCEPT ![r] = name ]
       /\ reserve' = [ reserve EXCEPT ![r] = [ rv EXCEPT !.contextLogger = r ] ]
       /\ loggers' = [ loggers EXCEPT ![r] = rv.contextLogger ]
       /\ genCount' = IF rv.generated THEN genCount + 1 ELSE genCount
       /\ wrw' = [ wrw EXCEPT ![r] = [ status |-> 0, responseSize |-> 0 ] ]
       /\ handed' = [ handed EXCEPT ![r] = [ request |-> request, writer |-> writer ] ]
       /\ UNCHANGED << config, inbound, under, calls, issued, gor, exit, writes >>

\* RequestLogging: next.ServeHTTP(wrw, r)
RequestLogging(r) ==
    /\ pc[r] = "idle"
    /\ Serve(r, "RequestLogging", [ ctx |-> inbound[r].ctx ], "wrw")

\* RequestLoggingWithEcho, calling LastHandling before next instead of deferring it
RequestLoggingWithEchoEarly(r) ==
    LET rv == NewReserve(config, r)
    IN /\ pc[r] = "idle"
       /\ pc' = [ pc EXCEPT ![r] = "running" ]
       /\ entry' = [ entry EXCEPT ![r] = "RequestLoggingWithEcho" ]
       /\ reserve' = [ reserve EXCEPT ![r] = [ rv EXCEPT !.contextLogger = r ] ]
       /\ loggers' = [ loggers EXCEPT ![r] = rv.contextLogger ]
       /\ genCount' = IF rv.generated THEN genCount + 1 ELSE genCount
       /\ wrw' = [ wrw EXCEPT ![r] = [ status |-> 0, responseSize |-> 0 ] ]
       /\ handed' = [ handed EXCEPT ![r] = [ request |-> rv.request, writer |-> "wrw" ] ]
       /\ writes' = writes \o LastHandling(r, wrw[r], TRUE)
       /\ UNCHANGED << config, inbound, under, calls, issued, gor, exit >>

\* RequestLoggingWithEcho: c.SetRequest(reserve.request); c.SetResponse(wr); next(c)
RequestLoggingWithEcho(r) ==
    /\ pc[r] = "idle"
    /\ Serve(r, "RequestLoggingWithEcho", NewReserve(config, r).request, "wrw")

\* RequestLoggingWithFunc: next.ServeHTTP(w, reserve.request)
RequestLoggingWithFunc(r) ==
    /\ pc[r] = "idle"
    /\ Serve(r, "RequestLoggingWithFunc", NewReserve(config, r).request, "w")

\* ------------------------------------------------ the deferred function
\* The deferred function, passing a failure of LastHandling on as a panic
DeferredPropagates(r, how, sinkOk) ==
    LET last == LastHandling(r, wrw[r], sinkOk)
        failed == \E i \in DOMAIN last : last[i].sink = "Stderr"
    IN /\ pc' = [ pc EXCEPT ![r] = "done" ]
       /\ exit' = [ exit EXCEPT ![r] = [ handler |-> how,
                                         caller |-> IF failed THEN "panic" ELSE how ] ]
       /\ writes' = writes \o last

\* The handler ends (how: "return" or "panic") and the deferred function
\* of the entry point runs LastHandling(wrw), which returns nothing and
\* recovers nothing: the entry point returns, or the handler's panic goes on.
Deferred(r, how, sinkOk) ==
    /\ pc' = [ pc EXCEPT ![r] = "done" ]
    /\ exit' = [ exit EXCEPT ![r] = [ handler |-> how, caller |-> how ] ]
    /\ writes' = writes \o LastHandling(r, wrw[r], sinkOk)

\* ---------------------------------------------------------- the handler
RECURSIVE SumOver(_, _)
SumOver(f, S) == IF S = {} THEN 0 ELSE LET x == CHOOSE y \in S : TRUE IN f[x] + SumOver(f, S \ {x})

\* The handlers may issue another call.
CallsLeft == SumOver(calls, Reqs) < MaxCalls

NoCallPending(r) == \A g \in Goroutines : gor[r][g].pc = "idle"

\* A logging method that answers a failed write with status 500
HandlerLogFailsRequest(r, severity, sinkOk) ==
    LET l == RequestContextLogger(handed[r].request)
        res == write(loggers[l], severity, sinkOk)
    IN /\ pc[r] = "running"
       /\ CallsLeft
       /\ l # Nil
       /\ calls' = [ calls EXCEPT ![r] = @ + 1 ]
       /\ loggers' = [ loggers EXCEPT ![l] = res.l ]
       /\ issued' = [ issued EXCEPT ![l] = Append(@, severity) ]
       /\ writes' = writes \o res.out
       /\ wrw' = IF res.err = "nil" THEN wrw ELSE [ wrw EXCEPT ![r].status = 500 ]
       /\ UNCHANGED << config, pc, entry, inbound, reserve, handed, under, gor, exit, genCount >>

\* The handler calls a logging method of RequestContextLogger(r).  On a nil
\* logger the method dereferences nil in write: the handler panics.
HandlerLog(r, severity, sinkOk) ==
    LET l == RequestContextLogger(handed[r].request)
        res == write(loggers[l], severity, sinkOk)
    IN /\ pc[r] = "running"
       /\ CallsLeft
       /\ calls' = [ calls EXCEPT ![r] = @ + 1 ]
       /\ IF l = Nil
          THEN /\ NoCallPending(r)
               /\ Deferred(r, "panic", sinkOk)
               /\ UNCHANGED << loggers, issued >>
          ELSE /\ loggers' = [ loggers EXCEPT ![l] = res.l ]
               /\ issued' = [ issued EXCEPT ![l] = Append(@, severity) ]
               /\ writes' = writes \o res.out
               /\ UNCHANGED << pc, exit >>
       /\ UNCHANGED << config, entry, inbound, reserve, handed, wrw, under, gor, genCount >>

\* The handler calls WriteHeader on the writer it was given.
HandlerWriteHeader(r, status) ==
    /\ pc[r] = "running"
    /\ CallsLeft
    /\ calls' = [ calls EXCEPT ![r] = @ + 1 ]
    /\ wrw' = IF handed[r].writer = "wrw"
              THEN [ wrw EXCEPT ![r] = WriteHeader(wrw[r], status) ]
              ELSE wrw
    /\ under' = [ under EXCEPT ![r] = Append(@, [ op |-> "WriteHeader", arg |-> status,
                                                   err |-> FALSE, ret |-> << >> ]) ]
    /\ UNCHANGED << config, pc, entry, inbound, reserve, loggers, handed, issued, gor, exit,
                    genCount, writes >>

\* The handler calls Write with len bytes on the writer it was given; the
\* underlying writer takes n of them (n < len: it returns an error).  ret is
\* what the handler's call returned.
HandlerWrite(r, len, n) ==
    /\ pc[r] = "running"
    /\ CallsLeft
    /\ calls' = [ calls EXCEPT ![r] = @ + 1 ]
    /\ wrw' = IF handed[r].writer = "wrw"
              THEN [ wrw EXCEPT ![r] = Write(wrw[r], n) ]
              ELSE wrw
    /\ under' = [ under EXCEPT ![r] =
                     Append(@, [ op |-> "Write", arg |-> n, err |-> n < len,
                                 ret |-> IF handed[r].writer = "wrw"
                                         THEN WriteReturns(n, n < len)
                                         ELSE << n, n < len >> ]) ]
    /\ UNCHANGED << config, pc, entry, inbound, reserve, loggers, handed, issued, gor, exit,
                    genCount, writes >>

\* The handler returns, having waited for the goroutines it started.
HandlerReturn(r, sinkOk) ==
    /\ pc[r] = "running"
    /\ NoCallPending(r)
    /\ Deferred(r, "return", sinkOk)
    /\ UNCHANGED << config, entry, inbound, reserve, loggers, handed, wrw, under, calls,
                    issued, gor, genCount >>

\* HandlerPanic for an entry point that calls LastHandling after next
\* returns instead of deferring it: a panic skips it
HandlerPanicNoDefer(r, sinkOk) ==
    /\ pc[r] = "running"
    /\ NoCallPending(r)
    /\ pc' = [ pc EXCEPT ![r] = "done" ]
    /\ exit' = [ exit EXCEPT ![r] = [ handler |-> "panic", caller |-> "panic" ] ]
    /\ UNCHANGED << config, entry, inbound, reserve, loggers, handed, wrw, under, calls,
                    issued, gor, genCount, writes >>

\* The handler panics.
HandlerPanic(r, sinkOk) ==
    /\ pc[r] = "running"
    /\ NoCallPending(r)
    /\ Deferred(r, "panic", sinkOk)
    /\ UNCHANGED << config, entry, inbound, reserve, loggers, handed, wrw, under, calls,
                    issued, gor, genCount >>

Next ==
    \E r \in Reqs :
        \/ RequestLogging(r)
        \/ RequestLoggingWithEcho(r)
        \/ RequestLoggingWithFunc(r)
        \/ \E severity \in LogSeverities, sinkOk \in BOOLEAN : HandlerLog(r, severity, sinkOk)
        \/ \E status \in Statuses : HandlerWriteHeader(r, status)
        \/ \E len \in 1 .. MaxBody : \E n \in 0 .. len : HandlerWrite(r, len, n)
        \/ \E sinkOk \in BOOLEAN : HandlerReturn(r, sinkOk)
        \/ \E sinkOk \in BOOLEAN : HandlerPanic(r, sinkOk)

Spec == Init /\ [][Next]_vars

\* ------------------------------------------- concurrent logging calls
\* ContextLogger holds no lock: a logging call made on a goroutine the
\* handler started runs write in two steps that other calls on the same
\* logger can come between.  First the threshold test and the read of the
\* slice header of l.loggedSeverity ...
GoWriteLoad(r, g, severity) ==
    LET l == RequestContextLogger(handed[r].request)
    IN /\ pc[r] = "running"
       /\ l # Nil
       /\ gor[r][g].pc = "idle"
       /\ CallsLeft
       /\ calls' = [ calls EXCEPT ![r] = @ + 1 ]
       /\ issued' = [ issued EXCEPT ![l] = Append(@, severity) ]
       /\ gor' = IF severity < loggers[l].Severity
                 THEN gor
                 ELSE [ gor EXCEPT ![r][g] = [ pc |-> "loaded", severity |-> severity,
                                               len |-> loggers[l].len ] ]
       /\ UNCHANGED << config, pc, entry, inbound, reserve, loggers, handed, wrw, under, exit,
                       genCount, writes >>

\* ... then the store of the element and of the new header, and the rest of
\* write.
GoWriteStore(r, g, sinkOk) ==
    LET l == RequestContextLogger(handed[r].request)
        c == gor[r][g]
    IN /\ pc[r] = "running"
       /\ c.pc = "loaded"
       /\ loggers' = [ loggers EXCEPT ![l] = appendAt(loggers[l], c.len, c.severity) ]
       /\ writes' = writes \o emit(loggers[l], c.severity, sinkOk).out
       /\ gor' = [ gor EXCEPT ![r][g] = IdleCall ]
       /\ UNCHANGED << config, pc, entry, inbound, reserve, handed, wrw, under, calls, issued,
                       exit, genCount >>

NextConc ==
    \/ Next
    \/ \E r \in Reqs, g \in Goroutines :
           \/ \E severity \in LogSeverities : GoWriteLoad(r, g, severity)
           \/ \E sinkOk \in BOOLEAN : GoWriteStore(r, g, sinkOk)

SpecConc == Init /\ [][NextConc]_vars

\* ------------------------------------------------------- plain handlers
\* Handlers that log at INFO and ERROR, set status 404 and write one byte,
\* with sinks that take every write.
NextPlain ==
    \E r \in Reqs :
        \/ RequestLogging(r)
        \/ RequestLoggingWithEcho(r)
        \/ RequestLoggingWithFunc(r)
        \/ \E severity \in { SeverityInfo, SeverityError } : HandlerLog(r, severity, TRUE)
        \/ HandlerWriteHeader(r, 404)
        \/ HandlerWrite(r, 1, 1)
        \/ HandlerReturn(r, TRUE)
        \/ HandlerPanic(r, TRUE)

\* Two requests are served at once, each on its own goroutine, under a
\* Config whose AdditionalData serializes.
InitMulti ==
    /\ InitWith(Reqs, Inbounds)
    /\ config.AdditionalData = "fields"

SpecMulti == InitMulti /\ [][NextPlain]_vars

\* One request is served, of any of the inbound kinds.
InitTrace == InitWith({1}, AllInbounds)

SpecTrace == InitTrace /\ [][NextPlain]_vars

\* ================================================================ claims
\* The positions in writes of the lines and reports made for request r.
RequestLogAt(r) == { i \in DOMAIN writes : writes[i].sink = "RequestLogOut" /\ writes[i].req = r }
ContextLogAt(r) == { i \in DOMAIN writes : writes[i].sink = "ContextLogOut" /\ writes[i].req = r }
StderrAt(r, by) ==
    { i \in DOMAIN writes : writes[i].sink = "Stderr" /\ writes[i].req = r /\ writes[i].by = by }

\* The calls made on logger r whose severity is at or above the configured threshold.
AtOrAbove(s) == s >= config.Severity
Accepted(r) == SelectSeq(issued[r], AtOrAbove)
Range(seq) == { seq[i] : i \in DOMAIN seq }
Count(seq, x) == Cardinality({ i \in DOMAIN seq : seq[i] = x })

\* The highest-ranked severity of a set, DEFAULT for the empty set.
MaxRank(S) == IF S = {} THEN SeverityDefault ELSE CHOOSE m \in S : \A x \in S : x <= m

Served(r) == pc[r] \in { "running", "done" }

\* --- C1: the severity of a request's access-log line is the name of the
\* highest-ranked severity among the calls its ContextLogger accepted, and
\* DEFAULT when it accepted none.
C1_AccessLogSeverityIsMax ==
    \A r \in Reqs : \A i \in RequestLogAt(r) :
        writes[i].severity = SeverityString(MaxRank(Range(Accepted(r))))

\* A finished request whose highest accepted severity was not the last one.
C1_Witness ==
    \E r \in Reqs :
        /\ pc[r] = "done"
        /\ RequestLogAt(r) # {}
        /\ Len(Accepted(r)) >= 2
        /\ Accepted(r)[1] > Accepted(r)[2]

\* --- C2: a call below the threshold writes nothing and appends nothing,
\* a call at the threshold is accepted: the history is exactly the accepted
\* calls, and each accepted call, no other, made one write (its line on the
\* application sink or, if it could not be serialized, its report on stderr).
C2_BelowThresholdIsNoOp ==
    \A r \in Reqs :
        /\ loggedSeverity(loggers[r]) = Accepted(r)
        /\ Cardinality(ContextLogAt(r) \cup StderrAt(r, "write")) = Len(Accepted(r))
        /\ \A i \in ContextLogAt(r) :
              \E s \in Range(Accepted(r)) : writes[i].severity = SeverityString(s)

\* A logger that was called below, at and never above its threshold.
C2_Witness ==
    \E r \in Reqs :
        /\ Len(issued[r]) >= 2
        /\ \E k \in DOMAIN issued[r] : issued[r][k] < config.Severity
        /\ \E k \in DOMAIN issued[r] : issued[r][k] = config.Severity
        /\ \A k \in DOMAIN issued[r] : issued[r][k] <= config.Severity
        /\ Cardinality(ContextLogAt(r)) = 1

\* --- C3 as stated: a request not yet finished has no access-log line, a
\* finished one has exactly one (counting a Write the sink rejected).
C3_ExactlyOneAccessLog ==
    \A r \in Reqs :
        /\ pc[r] # "done" => RequestLogAt(r) = {}
        /\ pc[r] = "done" => Cardinality(RequestLogAt(r)) = 1

\* --- C3 amended: LastHandling runs exactly once per request, only when the
\* handler has returned or panicked; it passes exactly one access-log line
\* to the request sink, unless the line cannot be serialized: then it
\* passes none and reports the error on stderr.
C3_OneAccessLogUnlessUnserializable ==
    \A r \in Reqs :
        LET n == Cardinality(RequestLogAt(r))
            e == Cardinality(StderrAt(r, "LastHandling"))
        IN /\ pc[r] # "done" => n = 0 /\ e = 0
           /\ pc[r] = "done" =>
                 IF config.AdditionalData = "unsupported"
                 THEN n = 0 /\ e = 1
                 ELSE n = 1 /\ e = Cardinality({ i \in RequestLogAt(r) : writes[i].err })

\* A handler that panicked after some calls, and the access-log line is there.
C3_Witness ==
    \E r \in Reqs :
        /\ pc[r] = "done"
        /\ exit[r].handler = "panic"
        /\ calls[r] > 0
        /\ Cardinality(RequestLogAt(r)) = 1

\* --- C4: the request handed to the handler carries the ContextLogger made
\* for the request: RequestContextLogger on it is that logger, not nil.
C4_HandlerRequestCarriesLogger ==
    \A r \in Reqs :
        Served(r) =>
            /\ RequestContextLogger(handed[r].request) # Nil
            /\ RequestContextLogger(handed[r].request) = reserve[r].contextLogger

\* --- C5: the response size of the access-log line is the number of bytes
\* the handler wrote to the response body.
RECURSIVE BytesWritten(_)
BytesWritten(u) ==
    IF u = << >> THEN 0
    ELSE (IF Head(u).op = "Write" THEN Head(u).arg ELSE 0) + BytesWritten(Tail(u))

C5_ResponseSizeIsBytesWritten ==
    \A r \in Reqs : \A i \in RequestLogAt(r) :
        writes[i].responseSize = Sprintd(BytesWritten(under[r]))

\* --- C6: the status the wrappedResponseWriter recorded is the first status
\* set by WriteHeader, or 200 if Write came first; later calls do not change it.
FirstStatus(u) == IF u[1].op = "WriteHeader" THEN u[1].arg ELSE StatusOK

C6_StatusRecordedOnce ==
    \A r \in Reqs :
        handed[r].writer = "wrw" /\ under[r] # << >> => wrw[r].status = FirstStatus(under[r])

\* --- C7: every application log line of a request is written before the
\* request's access-log line.
C7_AppLinesBeforeAccessLog ==
    \A r \in Reqs : \A i \in RequestLogAt(r) : \A j \in ContextLogAt(r) : j < i

\* A finished request with application lines and its access-log line.
C7_Witness ==
    \E r \in Reqs :
        /\ pc[r] = "done"
        /\ Cardinality(ContextLogAt(r)) >= 2
        /\ RequestLogAt(r) # {}

\* --- C8: all lines of a request, application lines and access-log line,
\* carry one trace: the one NewReserve built for the request.
C8_OneTracePerRequest ==
    \A r \in Reqs : \A i \in ContextLogAt(r) \cup RequestLogAt(r) :
        /\ writes[i].trace = reserve[r].traces
        /\ writes[i].trace = loggers[r].Trace
        /\ \A j \in ContextLogAt(r) \cup RequestLogAt(r) : writes[j].trace = writes[i].trace

\* A finished request with a generated trace id, application lines and the access-log line.
C8_Witness ==
    \E r \in Reqs :
        /\ pc[r] = "done"
        /\ reserve[r].generated
        /\ ContextLogAt(r) # {}
        /\ RequestLogAt(r) # {}

\* --- C9: with logging calls issued concurrently on one ContextLogger, once
\* no call is in progress every accepted call's severity is in the history
\* (as often as it was accepted), and the access-log severity is their maximum.
C9_ConcurrentAppendsKept ==
    \A r \in Reqs :
        NoCallPending(r) =>
            /\ \A s \in Severities :
                  Count(loggedSeverity(loggers[r]), s) = Count(Accepted(r), s)
            /\ \A i \in RequestLogAt(r) :
                  writes[i].severity = SeverityString(MaxRank(Range(Accepted(r))))

\* --- C10: a logging call whose sink write fails is reported on stderr.
C10_SinkFailureReported ==
    \A i \in DOMAIN writes :
        writes[i].sink = "ContextLogOut" /\ writes[i].err =>
            \E j \in DOMAIN writes :
                /\ j > i
                /\ writes[j].sink = "Stderr"
                /\ writes[j].by = "write"
                /\ writes[j].req = writes[i].req

\* --- C11: a call made by the handler of one request (a logging call, a
\* WriteHeader, a Write, up to the deferred LastHandling of a panic) leaves
\* every other request's ContextLogger, wrappedResponseWriter and log lines
\* as they were.
C11_RequestsDoNotInterfere ==
    [][ \A a \in Reqs :
          calls'[a] # calls[a] =>
              \A b \in Reqs \ { a } :
                  /\ loggers'[b] = loggers[b]
                  /\ wrw'[b] = wrw[b]
                  /\ RequestLogAt(b)' = RequestLogAt(b)
                  /\ ContextLogAt(b)' = ContextLogAt(b) ]_vars

\* Two finished requests that logged different severities; one wrote a body.
C11_Witness ==
    \E a \in Reqs : \E b \in Reqs \ { a } :
        /\ pc[a] = "done" /\ pc[b] = "done"
        /\ \E i \in RequestLogAt(a) : writes[i].severity = "ERROR" /\ writes[i].responseSize = "0"
        /\ \E i \in RequestLogAt(b) : writes[i].severity = "INFO" /\ writes[i].responseSize = "1"

\* --- C12: RequestContextLogger on a request no logging middleware has
\* touched, whatever else its context holds, is nil.
Untouched(request) == "ContextLoggerKey" \notin DOMAIN request.ctx

C12_NilWithoutMiddleware ==
    \A r \in Reqs :
        /\ Untouched(inbound[r]) /\ RequestContextLogger(inbound[r]) = Nil
        /\ Untouched(handed[r].request) => RequestContextLogger(handed[r].request) = Nil

\* A handler running on a request that carries a span but no logger.
C12_Witness ==
    \E r \in Reqs :
        /\ pc[r] = "running"
        /\ Untouched(handed[r].request)
        /\ "span" \in DOMAIN handed[r].request.ctx

\* --- C13 as stated: a valid trace header gives the header's trace id and
\* no generated id; otherwise a fresh non-empty id is generated once and
\* every line of the request carries it.
TracesOf(traceId) == "projects/" \o config.ProjectId \o "/traces/" \o traceId
LinesAt(r) == ContextLogAt(r) \cup RequestLogAt(r)

C13_HeaderTraceElseGenerated ==
    \A r \in Reqs :
        Served(r) =>
            IF Len(inbound[r].header) = 2
            THEN /\ reserve[r].traces = TracesOf(inbound[r].header[1])
                 /\ ~reserve[r].generated
            ELSE /\ reserve[r].generated
                 /\ genCount = 1
                 /\ reserve[r].traces = TracesOf("gen1")
                 /\ \A i \in LinesAt(r) : writes[i].trace = TracesOf("gen1")

\* --- C13 amended: the trace id is that of the span in the request's
\* context if there is one (whatever the header says), else that of a valid
\* trace header, and in both cases no id is generated; otherwise a fresh
\* non-empty id is generated once.  Every line of the request carries it.
C13_SpanElseHeaderElseGenerated ==
    \A r \in Reqs :
        Served(r) =>
            /\ IF "span" \in DOMAIN inbound[r].ctx
               THEN /\ reserve[r].traces = TracesOf(inbound[r].ctx["span"])
                    /\ ~reserve[r].generated /\ genCount = 0
               ELSE IF Len(inbound[r].header) = 2
               THEN /\ reserve[r].traces = TracesOf(inbound[r].header[1])
                    /\ ~reserve[r].generated /\ genCount = 0
               ELSE /\ reserve[r].generated /\ genCount = 1
                    /\ reserve[r].traces = TracesOf("gen1")
            /\ reserve[r].traces # TracesOf("")
            /\ \A i \in LinesAt(r) : writes[i].trace = reserve[r].traces

\* A finished request with a malformed header: its lines carry the generated id.
C13_Witness ==
    \E r \in Reqs :
        /\ pc[r] = "done"
        /\ inbound[r] = BadHeader
        /\ ContextLogAt(r) # {}
        /\ \A i \in LinesAt(r) : writes[i].trace = TracesOf("gen1")

\* --- C14: when the access-log line cannot be serialized or written, the
\* error is printed on stderr by LastHandling and goes no further: the
\* entry point ends as the handler ended, and the observer and the response
\* sent through the underlying writer are as the handler left them.
AccessLogFailed(new) ==
    \/ \A i \in DOMAIN new : new[i].sink # "RequestLogOut"
    \/ \E i \in DOMAIN new : new[i].sink = "RequestLogOut" /\ new[i].err

C14_AccessLogFailureReportedOnly ==
    [][ \A r \in Reqs :
          pc[r] = "running" /\ pc'[r] = "done" =>
              LET new == SubSeq(writes', Len(writes) + 1, Len(writes'))
                  reports == { i \in DOMAIN new : new[i].sink = "Stderr" }
              IN /\ exit'[r].caller = exit'[r].handler
                 /\ wrw'[r] = wrw[r]
                 /\ under'[r] = under[r]
                 /\ AccessLogFailed(new) =>
                        /\ Cardinality(reports) = 1
                        /\ \A i \in reports : new[i].by = "LastHandling" /\ new[i].text # "nil"
                 /\ ~AccessLogFailed(new) => reports = {} ]_vars

\* The handler wrote a byte and returned; the request sink then refused the
\* access-log line, and LastHandling reported it.
C14_Witness ==
    \E r \in Reqs :
        /\ pc[r] = "done"
        /\ exit[r] = [ handler |-> "return", caller |-> "return" ]
        /\ BytesWritten(under[r]) > 0
        /\ \E i \in RequestLogAt(r) : writes[i].err
        /\ StderrAt(r, "LastHandling") # {}

\* --- C15: a logging call on the request's ContextLogger, whether it writes
\* its line, is filtered out, or fails to serialize or to write, leaves the
\* observer's status and byte count and what went through the underlying
\* writer unchanged, and the handler goes on running.
C15_LoggingLeavesOutcome ==
    [][ \A r \in Reqs :
          issued'[r] # issued[r] =>
              /\ wrw' = wrw
              /\ under' = under
              /\ pc'[r] = "running"
              /\ exit' = exit ]_vars

\* A handler that wrote a byte, then made a filtered call and a call whose
\* sink write failed, and is still running.
C15_Witness ==
    \E r \in Reqs :
        /\ pc[r] = "running"
        /\ wrw[r].responseSize > 0
        /\ \E k \in DOMAIN issued[r] : issued[r][k] < config.Severity
        /\ \E i \in ContextLogAt(r) : writes[i].err

\* --- C16: the severity history of a ContextLogger only grows at its end:
\* every step leaves it as it was or appends exactly one element, and the
\* maximum severity over it never decreases.
C16_HistoryAppendOnly ==
    [][ \A r \in Reqs :
          LET old == loggedSeverity(loggers[r])
              new == loggedSeverity(loggers'[r])
          IN /\ \/ new = old
                \/ Len(new) = Len(old) + 1 /\ SubSeq(new, 1, Len(old)) = old
             /\ maxSeverity(loggers'[r]) >= maxSeverity(loggers[r]) ]_vars

\* A history of three accepted severities, the highest of them first.
C16_Witness ==
    \E r \in Reqs :
        /\ Len(loggedSeverity(loggers[r])) = 3
        /\ loggedSeverity(loggers[r])[1] = SeverityError
        /\ loggedSeverity(loggers[r])[3] = SeverityInfo

\* --- C17 as stated: every accepted logging call makes exactly one write to
\* the application sink, of the whole line with its terminator; the end of
\* the request likewise makes exactly one such write to the request sink.
NewWrites == SubSeq(writes', Len(writes) + 1, Len(writes'))
NewAt(sink) == { i \in DOMAIN NewWrites : NewWrites[i].sink = sink }
OneWholeLine(sink) ==
    /\ Cardinality(NewAt(sink)) = 1
    /\ \A i \in NewAt(sink) : NewWrites[i].bytes = << "json", "0xa" >>

C17_OneWritePerLine ==
    [][ \A r \in Reqs :
          /\ issued'[r] # issued[r] /\ AtOrAbove(issued'[r][Len(issued'[r])])
                => OneWholeLine("ContextLogOut")
          /\ pc[r] = "running" /\ pc'[r] = "done"
                => OneWholeLine("RequestLogOut") ]_vars

\* --- C17 amended: an accepted logging call whose entry serializes makes
\* exactly one write to the application sink, of the whole line with its
\* terminator, and the end of the request likewise one write to the request
\* sink; when json.Marshal fails on AdditionalData the sink is not written
\* at all, and the error goes to stderr in one write.
C17_OneWritePerSerializedLine ==
    [][ \A r \in Reqs :
          LET serializes == jsonMarshal(config.AdditionalData).err = "nil"
              asSerialized(sink) ==
                  IF serializes
                  THEN OneWholeLine(sink) /\ NewAt("Stderr") = {}
                  ELSE NewAt(sink) = {} /\ Cardinality(NewAt("Stderr")) = 1
          IN /\ issued'[r] # issued[r] /\ AtOrAbove(issued'[r][Len(issued'[r])])
                   => asSerialized("ContextLogOut")
             /\ pc[r] = "running" /\ pc'[r] = "done" /\ serializes
                   => OneWholeLine("RequestLogOut")
             /\ pc[r] = "running" /\ pc'[r] = "done" /\ ~serializes
                   => NewAt("RequestLogOut") = {} /\ Cardinality(NewAt("Stderr")) = 1 ]_vars

\* Two accepted calls and the end of the request: three whole lines, and no
\* other write.
C17_Witness ==
    \E r \in Reqs :
        /\ pc[r] = "done"
        /\ Len(Accepted(r)) = 2
        /\ Cardinality(ContextLogAt(r)) = 2
        /\ Cardinality(RequestLogAt(r)) = 1
        /\ Len(writes) = 3
        /\ \A i \in DOMAIN writes : writes[i].bytes = << "json", "0xa" >>

\* --- C18: on the wrappedResponseWriter, after any Write calls, failed ones
\* included, responseSize is the sum of the byte counts the underlying
\* writer reported, and each call returned the underlying writer's count and
\* error as they were.
C18_ResponseSizeSumsReported ==
    \A r \in Reqs :
        handed[r].writer = "wrw" =>
            /\ wrw[r].responseSize = BytesWritten(under[r])
            /\ \A k \in DOMAIN under[r] :
                   under[r][k].op = "Write" => under[r][k].ret = << under[r][k].arg, under[r][k].err >>

\* Two Write calls, one complete and one cut short with an error: two bytes counted.
C18_Witness ==
    \E r \in Reqs :
        /\ handed[r].writer = "wrw"
        /\ Len(under[r]) = 2
        /\ under[r][1] = [ op |-> "Write", arg |-> 1, err |-> FALSE, ret |-> << 1, FALSE >> ]
        /\ under[r][2] = [ op |-> "Write", arg |-> 1, err |-> TRUE, ret |-> << 1, TRUE >> ]
        /\ wrw[r].responseSize = 2

\* --- C19: when the handler called neither WriteHeader nor Write, the
\* status of the access-log line is 0.
C19_UntouchedStatusIsZero ==
    \A r \in Reqs : \A i \in RequestLogAt(r) :
        under[r] = << >> => writes[i].status = 0

\* A handler that only logged and returned: status 0, response size "0".
C19_Witness ==
    \E r \in Reqs :
        /\ pc[r] = "done"
        /\ exit[r].handler = "return"
        /\ under[r] = << >>
        /\ ContextLogAt(r) # {}
        /\ \E i \in RequestLogAt(r) : writes[i].status = 0 /\ writes[i].responseSize = "0"

\* --- C20: a call at or above the threshold counts toward the access-log
\* severity whether or not its line reached the application sink: the
\* access-log severity is at least the severity of every accepted call,
\* failed ones included, and so at least that of every line in the sink.
RankOf(name) == CHOOSE s \in Severities : SeverityString(s) = name
Delivered(r) == { i \in ContextLogAt(r) : ~writes[i].err }

C20_FailedCallsCount ==
    \A r \in Reqs : \A i \in RequestLogAt(r) :
        /\ \A k \in DOMAIN issued[r] :
               AtOrAbove(issued[r][k]) => RankOf(writes[i].severity) >= issued[r][k]
        /\ \A j \in Delivered(r) : RankOf(writes[i].severity) >= RankOf(writes[j].severity)

\* An access-log line at ERROR for a request whose only ERROR line the
\* application sink refused; the sink holds an INFO line of it.
C20_Witness ==
    \E r \in Reqs : \E i \in RequestLogAt(r) :
        /\ writes[i].severity = "ERROR"
        /\ \E j \in ContextLogAt(r) : writes[j].err /\ writes[j].severity = "ERROR"
        /\ Delivered(r) # {}
        /\ \A j \in Delivered(r) : writes[j].severity = "INFO"

====
